---- MODULE Spec2Model ----
(***************************************************************************)
(* Model of the combination bandit of HFBPO: RapoBanditAgent               *)
(* (src/src/core/rl_agent.py) and the /reward handler built on it          *)
(* (src/api.py).                                                           *)
(*                                                                         *)
(* Numbers.  Rewards, alpha, beta and sampled values are Python floats.    *)
(* Rewards, alpha and beta are modelled as fixed-point numbers in units    *)
(* of 1/Scale, so the float 1.0 is the integer Scale; sampled values are   *)
(* in units of 1/(2 * SampleLevels).  Texts are sequences of characters,   *)
(* so that the separator "|" inside a text is visible to _parse_key.       *)
(* A Python dict keeps insertion order; it is modelled as a sequence of    *)
(* entries with pairwise different keys.                                   *)
(***************************************************************************)
EXTENDS Integers, Sequences, FiniteSets, TLC

\* ------------------------------------------------------------- bounds ----
Scale == 2
MaxCands == 2
SampleLevels == 1
MaxUpdates == 2
MaxTopN == 2
NThreads == 2
MaxK == 2
MaxSim == 1
MaxMissing == 1
MaxText == 2

\* ------------------------------------------------------------- inputs ----
\* candidate triples (place, verb, scenario) the retriever may hand over; the
\* place of the second holds the separator
Triples ==
  { << <<"a">>, <<"c">>, <<"d">> >>,
    << <<"a", "|", "b">>, <<"c">>, <<"d">> >> }

\* rewards offered to update_reward: -1/Scale .. 1 + 1/Scale
Rewards == (0 - 1) .. (Scale + 1)
\* values np.random.beta may return, in units of 1/(2 * SampleLevels), so
\* that 0.5 is SampleLevels
SampleValues == 0 .. (2 * SampleLevels)
CandidateLists == UNION { [1..n -> Triples] : n \in 0..MaxCands }
\* n of get_top_combinations(n); a negative n is a legal Python slice bound
TopNs == (0 - 1) .. MaxTopN

\* Python None for a combination key, and the dict returned for "no call"
None == <<"None">>
NoSelection ==
  [combination_key |-> None, place |-> None, verb |-> None,
   scenario |-> None, estimated_reward |-> 0]

\* ------------------------------------------------------ ordered dicts ----
RECURSIVE DictIndex(_, _, _)
DictIndex(d, key, i) ==
  IF i > Len(d) THEN 0
  ELSE IF d[i].key = key THEN i ELSE DictIndex(d, key, i + 1)

DictKeys(d) == { d[i].key : i \in 1..Len(d) }
DictHas(d, key) == DictIndex(d, key, 1) # 0
DictGet(d, key) == d[DictIndex(d, key, 1)]
DictKeyList(d) == [i \in 1..Len(d) |-> d[i].key]

\* d[key] = vals : replaces in place, or appends a new entry at the end
DictSet(d, key, alpha, beta) ==
  LET e == [key |-> key, alpha |-> alpha, beta |-> beta]
  IN IF DictHas(d, key)
       THEN [d EXCEPT ![DictIndex(d, key, 1)] = e]
       ELSE Append(d, e)

\* --------------------------------------------------------------- keys ----
Sep == "|"

_make_key(place, verb, scenario) ==
  place \o <<Sep>> \o verb \o <<Sep>> \o scenario

\* str.split('|'): the pieces between the separators, left to right
RECURSIVE Split(_, _, _)
Split(s, cur, acc) ==
  IF s = <<>> THEN Append(acc, cur)
  ELSE IF Head(s) = Sep THEN Split(Tail(s), <<>>, Append(acc, cur))
  ELSE Split(Tail(s), Append(cur, Head(s)), acc)

_parse_key(key) ==
  LET parts == Split(key, <<>>, <<>>)
  IN IF Len(parts) = 3 THEN <<parts[1], parts[2], parts[3]>>
     ELSE << <<>>, <<>>, <<>> >>

\* keys a caller may send as feedback: every key select can offer, a key
\* that is never offered, and the empty string
ForgedKey == <<"z">>
FeedbackKeys ==
  { _make_key(t[1], t[2], t[3]) : t \in Triples } \cup { ForgedKey, <<>> }

\* -------------------------------------------------------------- state ----
VARIABLES
  combinations,  \* self.combinations: ordered dict key -> {alpha, beta}
  file,          \* the state file rapo_bandit_state.json
  call,          \* the last operation called, its arguments, whether it
                 \* changed a belief (applied) and what it printed (log)
  returned,      \* what the last operation returned to its caller
  offered,       \* keys passed to select_combination since the process started
  updates,       \* applied updates per key registered as (1,1) since the start
  threads,       \* the request threads of the server: position and locals
  retrieval,     \* one call of ModifierRetriever.retrieve: inputs and result
  sheet,         \* the rows of the video log worksheet, header excluded
  feedback       \* a batch of (key, reward) items and the order it is applied in

vars == <<combinations, file, call, returned, offered, updates, threads,
         retrieval, sheet, feedback>>

NoFile == [kind |-> "absent", doc |-> <<>>]

\* the worker threads that run the synchronous handlers of src/api.py
Threads == 1..NThreads

\* a thread outside any call; the fields are the locals of select_combination
\* and update_reward (tmp is the operand a read has left on the stack)
IdleThread ==
  [pc |-> "idle", op |-> "none", key |-> None, reward |-> 0,
   applied |-> FALSE, tmp |-> 0, candidates |-> <<>>, keys |-> <<>>,
   i |-> 0, seen |-> <<>>, selection |-> NoSelection]


NoCall ==
  [op |-> "init", candidates |-> <<>>, samples |-> <<>>,
   key |-> None, reward |-> 0, n |-> 0, save |-> "none", applied |-> FALSE,
   log |-> <<>>]

NoReturn ==
  [selection |-> NoSelection, status |-> 0, success |-> FALSE, top |-> <<>>]

NoFeedback == [stage |-> "none", store |-> <<>>, items |-> <<>>, order |-> <<>>]

\* ------------------------------------------------------- persistence ----
\* save_state: open(..., 'w') truncates the file, json.dump writes the whole
\* dict; any exception is caught and printed.  outcome is what the file
\* system does: "ok", "open_failed" (open raises, file untouched) or
\* "write_failed" (the dump raises after the truncation).
SaveOutcomes == {"ok", "open_failed", "write_failed"}

\* variant: the file is opened for appending, the dump follows the old text
save_state_Append(comb, f, outcome) ==
  CASE outcome = "ok" -> [kind |-> "doc", doc |-> f.doc \o comb]
    [] outcome = "open_failed" -> f
    [] OTHER -> [kind |-> "partial", doc |-> <<>>]

save_state(comb, f, outcome) ==
  CASE outcome = "ok" -> [kind |-> "doc", doc |-> comb]
    [] outcome = "open_failed" -> f
    [] OTHER -> [kind |-> "partial", doc |-> <<>>]

\* variant: the except branch passes silently
SaveLog_Silent(outcome) == <<>>

\* what save_state prints: the except branch reports the error on stdout
SaveLog(outcome) ==
  IF outcome = "ok" THEN <<>> ELSE <<"Error saving state">>

\* for key, vals in saved.items(): self.combinations[key] = vals
RECURSIVE Merge(_, _)
Merge(comb, saved) ==
  IF saved = <<>> THEN comb
  ELSE Merge(DictSet(comb, Head(saved).key, Head(saved).alpha,
                     Head(saved).beta), Tail(saved))

\* load_state: a missing file is skipped; a file json.load cannot parse
\* raises inside the try and leaves self.combinations as it was
load_state(comb, f) ==
  IF f.kind = "doc" THEN Merge(comb, f.doc) ELSE comb

\* ---------------------------------------------------------- selection ----
\* variant: every candidate is written as (1,1), without the membership test
RECURSIVE Register_Reset(_, _)
Register_Reset(comb, candidates) ==
  IF candidates = <<>> THEN comb
  ELSE LET t == Head(candidates)
       IN Register_Reset(DictSet(comb, _make_key(t[1], t[2], t[3]),
                                 Scale, Scale), Tail(candidates))

\* variant: only the first candidate is registered
Register_FirstOnly(comb, candidates) ==
  IF candidates = <<>> THEN comb
  ELSE LET key == _make_key(candidates[1][1], candidates[1][2],
                            candidates[1][3])
       IN IF DictHas(comb, key) THEN comb
          ELSE DictSet(comb, key, Scale, Scale)

\* lines 67-74: the keys of the candidates, each new key registered as (1,1)
RECURSIVE Register(_, _)
Register(comb, candidates) ==
  IF candidates = <<>> THEN comb
  ELSE LET t == Head(candidates)
           key == _make_key(t[1], t[2], t[3])
       IN Register(IF DictHas(comb, key) THEN comb
                   ELSE DictSet(comb, key, Scale, Scale),
                   Tail(candidates))

CandidateKeys(candidates) ==
  [i \in 1..Len(candidates) |->
     _make_key(candidates[i][1], candidates[i][2], candidates[i][3])]

\* variant: the last index holding the maximum
ArgMax_Last(values) ==
  CHOOSE i \in 1..Len(values) :
    /\ \A j \in 1..Len(values) : values[j] <= values[i]
    /\ \A j \in (i + 1)..Len(values) : values[j] < values[i]

\* np.argmax: the first index holding the maximum
ArgMax(values) ==
  CHOOSE i \in 1..Len(values) :
    /\ \A j \in 1..Len(values) : values[j] <= values[i]
    /\ \A j \in 1..(i - 1) : values[j] < values[i]

Sentinel ==
  [combination_key |-> None, place |-> <<"default place">>,
   verb |-> <<"default verb">>, scenario |-> <<"default scenario">>,
   estimated_reward |-> SampleLevels]

SelectKeys(comb, candidates) ==
  IF candidates # <<>> THEN CandidateKeys(candidates) ELSE DictKeyList(comb)

SelectResult(keys, sampled_values) ==
  LET best_idx == ArgMax(sampled_values)
      best_key == keys[best_idx]
      parsed == _parse_key(best_key)
  IN [combination_key |-> best_key, place |-> parsed[1], verb |-> parsed[2],
      scenario |-> parsed[3], estimated_reward |-> sampled_values[best_idx]]

\* ------------------------------------------------------------ updates ----
PyMin(a, b) == IF b < a THEN b ELSE a
PyMax(a, b) == IF b > a THEN b ELSE a
\* variants: one side of the clamp missing
Clamp_NoLower(reward) == PyMin(Scale, reward)
Clamp_NoUpper(reward) == PyMax(0, reward)

Clamp(reward) == PyMax(0, PyMin(Scale, reward))

\* variant: beta += reward
ApplyReward_BetaPlus(comb, key, reward) ==
  LET e == DictGet(comb, key)
  IN DictSet(comb, key, e.alpha + reward, e.beta + reward)

\* variant: the dict is replaced by the updated entry alone
ApplyReward_DropOthers(comb, key, reward) ==
  LET e == DictGet(comb, key)
  IN << [key |-> key, alpha |-> e.alpha + reward,
         beta |-> e.beta + (Scale - reward)] >>

\* lines 107-108
ApplyReward(comb, key, reward) ==
  LET e == DictGet(comb, key)
  IN DictSet(comb, key, e.alpha + reward, e.beta + (Scale - reward))

\* number of updates the beliefs of the store hold
RECURSIVE Mass(_)
Mass(comb) ==
  IF comb = <<>> THEN 0
  ELSE (Head(comb).alpha + Head(comb).beta - 2 * Scale) \div Scale
       + Mass(Tail(comb))

\* variant: an unknown key is created with the prior and then updated
update_reward_AutoCreate(comb, f, key, r, outcome) ==
  LET reward == Clamp(r)
      c1 == IF DictHas(comb, key) THEN comb ELSE DictSet(comb, key, Scale, Scale)
      c2 == ApplyReward(c1, key, reward)
  IN [combinations |-> c2, file |-> save_state(c2, f, outcome),
      applied |-> TRUE, log |-> SaveLog(outcome) \o <<"Updated">>]

\* variant: a failed flush undoes the mutation
update_reward_Rollback(comb, f, key, r, outcome) ==
  LET reward == Clamp(r)
  IN IF ~DictHas(comb, key)
       THEN [combinations |-> comb, file |-> f, applied |-> FALSE,
             log |-> <<"Unknown combination">>]
       ELSE LET c2 == ApplyReward(comb, key, reward)
            IN [combinations |-> IF outcome = "ok" THEN c2 ELSE comb,
                file |-> save_state(c2, f, outcome),
                applied |-> TRUE, log |-> SaveLog(outcome) \o <<"Updated">>]

\* RapoBanditAgent.update_reward, lines 99-114
update_reward(comb, f, key, r, outcome) ==
  LET reward == Clamp(r)
  IN IF ~DictHas(comb, key)
       THEN [combinations |-> comb, file |-> f, applied |-> FALSE,
             log |-> <<"Unknown combination">>]
       ELSE LET c2 == ApplyReward(comb, key, reward)
            IN [combinations |-> c2, file |-> save_state(c2, f, outcome),
                applied |-> TRUE, log |-> SaveLog(outcome) \o <<"Updated">>]

\* -------------------------------------------------------- top combos ----
\* mean_reward = alpha / (alpha + beta), kept as the fraction <<num, den>>
MeanGT(x, y) == x.mean_reward[1] * y.mean_reward[2]
                  > y.mean_reward[1] * x.mean_reward[2]

TopEntry(e) ==
  LET parsed == _parse_key(e.key)
  IN [key |-> e.key, place |-> parsed[1], verb |-> parsed[2],
      scenario |-> parsed[3], mean_reward |-> <<e.alpha, e.alpha + e.beta>>,
      alpha |-> e.alpha, beta |-> e.beta]

\* variant: the sort without reverse=True
RECURSIVE InsertDesc_Ascending(_, _)
InsertDesc_Ascending(sorted, x) ==
  IF sorted = <<>> THEN <<x>>
  ELSE IF MeanGT(Head(sorted), x) THEN <<x>> \o sorted
  ELSE <<Head(sorted)>> \o InsertDesc_Ascending(Tail(sorted), x)

\* variant: an entry is placed before the entries of equal mean
RECURSIVE InsertDesc_BeforeEqual(_, _)
InsertDesc_BeforeEqual(sorted, x) ==
  IF sorted = <<>> THEN <<x>>
  ELSE IF ~MeanGT(Head(sorted), x) THEN <<x>> \o sorted
  ELSE <<Head(sorted)>> \o InsertDesc_BeforeEqual(Tail(sorted), x)

\* list.sort(key=mean_reward, reverse=True): stable, equal means keep their order
RECURSIVE InsertDesc(_, _)
InsertDesc(sorted, x) ==
  IF sorted = <<>> THEN <<x>>
  ELSE IF MeanGT(x, Head(sorted)) THEN <<x>> \o sorted
  ELSE <<Head(sorted)>> \o InsertDesc(Tail(sorted), x)

RECURSIVE SortDesc(_, _)
SortDesc(items, sorted) ==
  IF items = <<>> THEN sorted
  ELSE SortDesc(Tail(items), InsertDesc(sorted, Head(items)))

\* results[:n]
SliceTo(s, n) ==
  LET stop == IF n >= 0 THEN PyMin(n, Len(s)) ELSE PyMax(Len(s) + n, 0)
  IN SubSeq(s, 1, stop)

get_top_combinations(comb, n) ==
  SliceTo(SortDesc([i \in 1..Len(comb) |-> TopEntry(comb[i])], <<>>), n)

\* ---------------------------------------------------------- retriever ----
\* src/src/rapo/retrieve_modifiers.py.  A corpus is what _load_data has read
\* from graph_dir: the *_to_idx dicts as functions word -> row index, the
\* embedding tables by their number of rows, the graphs by the neighbours of
\* their nodes.  A file that is missing leaves an empty dict, an empty table
\* or an empty graph.
Range(s) == { s[i] : i \in 1..Len(s) }
Reverse(s) == [i \in 1..Len(s) |-> s[Len(s) + 1 - i]]

\* a[-k:] : the last k entries; all of them for k = 0 or k > len(a)
LastK(s, k) ==
  LET start == IF k > 0 THEN PyMax(Len(s) - k, 0) ELSE PyMin(0 - k, Len(s))
  IN SubSeq(s, start + 1, Len(s))

\* list(a_set): the members once each, in an order the caller cannot choose
Orders(S) ==
  { o \in [1..Cardinality(S) -> S] : \A w \in S : \E i \in DOMAIN o : o[i] = w }

\* np.argsort(sim): positions in ascending order of sim; the default sort is
\* not stable, positions of equal similarity come in any order
ArgSorts(sim) ==
  { o \in Orders(1..Len(sim)) :
      \A i \in 1..Len(sim), j \in 1..Len(sim) :
         i < j => sim[o[i]] <= sim[o[j]] }

\* np.argsort(sim)[-k:][::-1]
TopIndices(sim, k) == { Reverse(LastK(o, k)) : o \in ArgSorts(sim) }

PlaceA == <<"a">>
PlaceB == <<"b">>
VerbC == <<"c">>
VerbCC == <<"c", "c">>
SceneD == <<"d">>
SceneDD == <<"d", "d">>

NoDict == [w \in {} |-> 0]

EmptyCorpus ==
  [place_to_idx |-> NoDict, verb_to_idx |-> NoDict,
   scenario_to_idx |-> NoDict,
   place_embed |-> 0, verb_embed |-> 0, scenario_embed |-> 0,
   G_place_verb |-> [w \in {} |-> {}], G_place_scene |-> [w \in {} |-> {}]]

\* every word indexed and embedded; a has both verbs, b has both scenarios
FullCorpus ==
  [place_to_idx |-> (PlaceA :> 0) @@ (PlaceB :> 1),
   verb_to_idx |-> (VerbC :> 0) @@ (VerbCC :> 1),
   scenario_to_idx |-> (SceneD :> 0) @@ (SceneDD :> 1),
   place_embed |-> 2, verb_embed |-> 2, scenario_embed |-> 2,
   G_place_verb |-> (PlaceA :> {VerbC, VerbCC}) @@ (PlaceB :> {VerbC})
                    @@ (VerbC :> {PlaceA, PlaceB}) @@ (VerbCC :> {PlaceA}),
   G_place_scene |-> (PlaceA :> {SceneD}) @@ (PlaceB :> {SceneD, SceneDD})
                     @@ (SceneD :> {PlaceA, PlaceB}) @@ (SceneDD :> {PlaceB})]

\* the only verb is adjacent to a alone, the only scenario to b alone
CrossCorpus ==
  [place_to_idx |-> (PlaceA :> 0) @@ (PlaceB :> 1),
   verb_to_idx |-> (VerbC :> 0),
   scenario_to_idx |-> (SceneD :> 0),
   place_embed |-> 2, verb_embed |-> 1, scenario_embed |-> 1,
   G_place_verb |-> (PlaceA :> {VerbC}) @@ (VerbC :> {PlaceA}),
   G_place_scene |-> (PlaceB :> {SceneD}) @@ (SceneD :> {PlaceB})]

\* the graphs of FullCorpus; verb_to_idx.json is missing and the scenario
\* table has a row for d only
UnindexedCorpus ==
  [FullCorpus EXCEPT !.verb_to_idx = NoDict, !.scenario_embed = 1]

Corpora == {EmptyCorpus, FullCorpus, CrossCorpus, UnindexedCorpus}

\* cosine similarities of the topic to the rows of a table
Sims == 0..MaxSim
SimTables == [0..1 -> Sims]
TopKs == 0..MaxK

\* idx_to_x = {v: k for k, v in x_to_idx.items()}
HasIdx(to_idx, idx) == \E w \in DOMAIN to_idx : to_idx[w] = idx
IdxToWord(to_idx, idx) == CHOOSE w \in DOMAIN to_idx : to_idx[w] = idx

\* variant: only the first of the top places contributes its neighbours
Neighbours_FirstOnly(G, top_places) ==
  IF top_places # <<>> /\ top_places[1] \in DOMAIN G THEN G[top_places[1]]
  ELSE {}

\* lines 146-159: the neighbours of the top places that are nodes of G
Neighbours(G, top_places) ==
  UNION { G[p] : p \in Range(top_places) \cap DOMAIN G }

\* variant: without embedded members the shortlist is empty
_filter_by_similarity_NoFallback(candidates, to_idx, embeddings, sim, top_k) ==
  IF candidates = <<>> THEN { <<>> }
  ELSE LET Valid(c) == c \in DOMAIN to_idx /\ to_idx[c] < embeddings
           valid_candidates == SelectSeq(candidates, Valid)
       IN IF valid_candidates = <<>> THEN { <<>> }
          ELSE LET valid_sim == [i \in 1..Len(valid_candidates) |->
                                   sim[to_idx[valid_candidates[i]]]]
                   k == PyMin(top_k, Len(valid_candidates))
               IN { [j \in 1..Len(top) |-> valid_candidates[top[j]]] :
                      top \in TopIndices(valid_sim, k) }

\* _filter_by_similarity, lines 193-227: every list it may return
_filter_by_similarity(candidates, to_idx, embeddings, sim, top_k) ==
  IF candidates = <<>> THEN { <<>> }
  ELSE LET Valid(c) == c \in DOMAIN to_idx /\ to_idx[c] < embeddings
           valid_candidates == SelectSeq(candidates, Valid)
       IN IF valid_candidates = <<>> THEN { SliceTo(candidates, top_k) }
          ELSE LET valid_sim == [i \in 1..Len(valid_candidates) |->
                                   sim[to_idx[valid_candidates[i]]]]
                   k == PyMin(top_k, Len(valid_candidates))
               IN { [j \in 1..Len(top) |-> valid_candidates[top[j]]] :
                      top \in TopIndices(valid_sim, k) }

\* variant: the three lists are zipped
CrossProduct_Zip(places, verbs, scenarios) ==
  [n \in 1..PyMin(Len(places), PyMin(Len(verbs), Len(scenarios))) |->
     << places[n], verbs[n], scenarios[n] >>]

\* lines 179-184: for place / for verb / for scenario, innermost fastest
CrossProduct(places, verbs, scenarios) ==
  [n \in 1..(Len(places) * Len(verbs) * Len(scenarios)) |->
     << places[((n - 1) \div (Len(verbs) * Len(scenarios))) + 1],
        verbs[(((n - 1) \div Len(scenarios)) % Len(verbs)) + 1],
        scenarios[((n - 1) % Len(scenarios)) + 1] >>]

Retrieved(status, places, verbs, scenarios) ==
  [status |-> status, places |-> places, verbs |-> verbs,
   scenarios |-> scenarios,
   combinations |-> CrossProduct(places, verbs, scenarios)]

\* retrieve, lines 139-191, for one order of the place ranking
RetrieveFrom(corpus, top_place_indices, verb_sim, scenario_sim, top_k_verbs, top_k_scenarios) ==
  IF \E j \in DOMAIN top_place_indices :
        ~HasIdx(corpus.place_to_idx, top_place_indices[j] - 1)
    THEN { Retrieved("KeyError", <<>>, <<>>, <<>>) }
    ELSE LET top_places ==
               [j \in DOMAIN top_place_indices |->
                  IdxToWord(corpus.place_to_idx, top_place_indices[j] - 1)]
             candidate_verbs == Neighbours(corpus.G_place_verb, top_places)
             candidate_scenarios == Neighbours(corpus.G_place_scene, top_places)
             top_verbs ==
               UNION { _filter_by_similarity(l, corpus.verb_to_idx,
                                             corpus.verb_embed, verb_sim,
                                             top_k_verbs) :
                         l \in Orders(candidate_verbs) }
             top_scenarios ==
               UNION { _filter_by_similarity(l, corpus.scenario_to_idx,
                                             corpus.scenario_embed,
                                             scenario_sim, top_k_scenarios) :
                         l \in Orders(candidate_scenarios) }
         IN { Retrieved("ok", top_places, v, sc) :
                v \in top_verbs, sc \in top_scenarios }

\* ModifierRetriever.retrieve, lines 108-191: every result it may return
retrieve(corpus, place_sim, verb_sim, scenario_sim, top_k_places, top_k_verbs, top_k_scenarios) ==
  IF corpus.place_embed = 0
    THEN { Retrieved("ok", <<>>, <<>>, <<>>) }
    ELSE UNION { RetrieveFrom(corpus, top, verb_sim, scenario_sim,
                              top_k_verbs, top_k_scenarios) :
                   top \in TopIndices([i \in 1..corpus.place_embed |->
                                         place_sim[i - 1]], top_k_places) }

NoRetrieval ==
  [stage |-> "none", corpus |-> EmptyCorpus,
   place_sim |-> [i \in 0..1 |-> 0], verb_sim |-> [i \in 0..1 |-> 0],
   scenario_sim |-> [i \in 0..1 |-> 0],
   top_k_places |-> 0, top_k_verbs |-> 0, top_k_scenarios |-> 0,
   result |-> Retrieved("ok", <<>>, <<>>, <<>>)]

\* ------------------------------------------------------------ actions ----
Init ==
  /\ combinations = load_state(<<>>, NoFile)
  /\ file = NoFile
  /\ call = NoCall
  /\ returned = NoReturn
  /\ offered = {}
  /\ updates = [k \in {} |-> 0]
  /\ threads = [t \in Threads |-> IdleThread]
  /\ sheet = <<>>
  /\ feedback = NoFeedback
  /\ retrieval = NoRetrieval

\* the process stops and is started again: RapoBanditAgent.__init__
Restart ==
  /\ combinations' = load_state(<<>>, file)
  /\ file' = file
  /\ call' = [NoCall EXCEPT !.op = "restart"]
  /\ returned' = NoReturn
  /\ offered' = {}
  /\ updates' = [k \in {} |-> 0]
  /\ UNCHANGED <<threads, retrieval, sheet, feedback>>

\* select_combination with no candidates and an empty store: lines 57-64
SelectDefault ==
  \E candidates \in CandidateLists :
    /\ candidates = <<>> /\ combinations = <<>>
    /\ call' = [NoCall EXCEPT !.op = "select", !.candidates = candidates]
    /\ returned' = [NoReturn EXCEPT !.selection = Sentinel]
    /\ UNCHANGED <<combinations, file, offered, updates, threads, retrieval, sheet, feedback>>

\* variant: the selection flushes the store after registering
SelectCombinationWith_Flushing(values) ==
  \E candidates \in CandidateLists :
    /\ ~(candidates = <<>> /\ combinations = <<>>)
    /\ \E comb2 \in { Register(combinations, candidates) } :
       \E keys \in { SelectKeys(comb2, candidates) } :
       \E fresh \in { DictKeys(comb2) \ DictKeys(combinations) } :
       \E sampled_values \in [1..Len(keys) -> values] :
            /\ combinations' = comb2
            /\ call' = [NoCall EXCEPT !.op = "select",
                                      !.candidates = candidates,
                                      !.samples = sampled_values]
            /\ returned' = [NoReturn EXCEPT
                              !.selection = SelectResult(keys, sampled_values)]
            /\ offered' = offered \cup { keys[i] : i \in 1..Len(candidates) }
            /\ updates' = [k \in DOMAIN updates \cup fresh |->
                             IF k \in DOMAIN updates THEN updates[k] ELSE 0]
            /\ file' = save_state(comb2, file, "ok")
            /\ UNCHANGED <<threads, retrieval, sheet, feedback>>

\* select_combination, lines 66-97
SelectCombinationWith(values) ==
  \E candidates \in CandidateLists :
    /\ ~(candidates = <<>> /\ combinations = <<>>)
    /\ \E comb2 \in { Register(combinations, candidates) } :
       \E keys \in { SelectKeys(comb2, candidates) } :
       \E fresh \in { DictKeys(comb2) \ DictKeys(combinations) } :
       \E sampled_values \in [1..Len(keys) -> values] :
            /\ combinations' = comb2
            /\ call' = [NoCall EXCEPT !.op = "select",
                                      !.candidates = candidates,
                                      !.samples = sampled_values]
            /\ returned' = [NoReturn EXCEPT
                              !.selection = SelectResult(keys, sampled_values)]
            /\ offered' = offered \cup { keys[i] : i \in 1..Len(candidates) }
            /\ updates' = [k \in DOMAIN updates \cup fresh |->
                             IF k \in DOMAIN updates THEN updates[k] ELSE 0]
            /\ file' = file
            /\ UNCHANGED <<threads, retrieval, sheet, feedback>>

SelectCombination == SelectCombinationWith(SampleValues)

CountUpdate(key, applied) ==
  IF applied /\ key \in DOMAIN updates
    THEN [updates EXCEPT ![key] = @ + 1] ELSE updates

\* RapoGenerator.update_reward -> RapoBanditAgent.update_reward
UpdateRewardWith(outcomes) ==
  \E key \in FeedbackKeys, reward \in Rewards, outcome \in outcomes :
    \E u \in { update_reward(combinations, file, key, reward, outcome) } :
       /\ DictHas(combinations, key) => Mass(combinations) < MaxUpdates
       /\ ~DictHas(combinations, key) => outcome = "ok"
       /\ combinations' = u.combinations
       /\ file' = u.file
       /\ call' = [NoCall EXCEPT !.op = "update", !.key = key,
                                 !.reward = reward, !.save = outcome,
                                 !.applied = u.applied, !.log = u.log]
       /\ returned' = NoReturn
       /\ updates' = CountUpdate(key, u.applied)
       /\ offered' = offered
       /\ UNCHANGED <<threads, retrieval, sheet, feedback>>

\* POST /reward, src/api.py lines 124-143
RewardEndpointWith(outcomes) ==
  \E key \in FeedbackKeys, reward \in Rewards, outcome \in outcomes :
    IF key = <<>> \/ ~(0 <= reward /\ reward <= Scale)
      THEN /\ outcome = "ok"
           /\ call' = [NoCall EXCEPT !.op = "reward", !.key = key,
                                     !.reward = reward]
           /\ returned' = [NoReturn EXCEPT !.status = 400]
           /\ UNCHANGED <<combinations, file, offered, updates, threads, retrieval, sheet, feedback>>
      ELSE \E u \in { update_reward(combinations, file, key, reward, outcome) } :
              /\ DictHas(combinations, key) => Mass(combinations) < MaxUpdates
              /\ ~DictHas(combinations, key) => outcome = "ok"
              /\ combinations' = u.combinations
              /\ file' = u.file
              /\ call' = [NoCall EXCEPT !.op = "reward", !.key = key,
                                        !.reward = reward, !.save = outcome,
                                        !.applied = u.applied,
                                        !.log = u.log]
              /\ returned' = [NoReturn EXCEPT !.status = 200,
                                              !.success = TRUE]
              /\ updates' = CountUpdate(key, u.applied)
              /\ offered' = offered
              /\ UNCHANGED <<threads, retrieval, sheet, feedback>>

\* the calls whose flush to the state file succeeds
UpdateReward == UpdateRewardWith({"ok"})
RewardEndpoint == RewardEndpointWith({"ok"})

\* get_top_combinations(n), lines 116-133
GetTopCombinations ==
  \E n \in TopNs :
    /\ call' = [NoCall EXCEPT !.op = "top", !.n = n]
    /\ returned' = [NoReturn EXCEPT !.top = get_top_combinations(combinations, n)]
    /\ UNCHANGED <<combinations, file, offered, updates, threads, retrieval, sheet, feedback>>

Next ==
  \/ Restart
  \/ SelectDefault
  \/ SelectCombination
  \/ UpdateReward
  \/ RewardEndpoint
  \/ GetTopCombinations

Spec == Init /\ [][Next]_vars

\* What select_combination samples has no part in persistence: in the
\* specifications about the state file every candidate draws 0.5.
SelectCombinationHalf == SelectCombinationWith({SampleLevels})

\* ------------------------------------------- the process may die ---------
\* update_reward is interrupted after the mutation of lines 107-108: before
\* save_state opens the file, inside json.dump after open(..., 'w') has
\* truncated it, or after the dump is complete.  The process is then started
\* again and loads what the file holds.
CrashPoints == {"before_open", "in_dump", "after_dump"}

CrashFile(comb, f, point) ==
  CASE point = "before_open" -> f
    [] point = "in_dump" -> [kind |-> "partial", doc |-> <<>>]
    [] OTHER -> [kind |-> "doc", doc |-> comb]

CrashDuringUpdate ==
  \E key \in DictKeys(combinations), reward \in Rewards,
     point \in CrashPoints :
    \E f2 \in { CrashFile(ApplyReward(combinations, key, Clamp(reward)),
                          file, point) } :
       /\ Mass(combinations) < MaxUpdates
       /\ file' = f2
       /\ combinations' = load_state(<<>>, f2)
       /\ call' = [NoCall EXCEPT !.op = "crash", !.key = key,
                                 !.reward = reward, !.save = point]
       /\ returned' = NoReturn
       /\ offered' = {}
       /\ updates' = [k \in {} |-> 0]
       /\ UNCHANGED <<threads, retrieval, sheet, feedback>>

NextCrash ==
  \/ Restart
  \/ SelectCombinationHalf
  \/ UpdateReward
  \/ CrashDuringUpdate

SpecCrash == Init /\ [][NextCrash]_vars

\* ------------------------------------- handlers on concurrent threads ----
\* src/api.py declares its handlers with def, so the server runs them on
\* worker threads; RapoBanditAgent holds no lock.  Each thread serves one
\* call, one read or write of self.combinations per step.  The store starts
\* as an earlier selection has left it.
InitConc ==
  /\ combinations \in { Register(<<>>, c) : c \in CandidateLists }
  /\ file = NoFile
  /\ call = NoCall
  /\ returned = NoReturn
  /\ offered = {}
  /\ updates = [k \in {} |-> 0]
  /\ threads = [t \in Threads |-> IdleThread]
  /\ sheet = <<>>
  /\ feedback = NoFeedback
  /\ retrieval = NoRetrieval

Step(t, local) ==
  /\ threads' = [threads EXCEPT ![t] = local]
  /\ UNCHANGED <<call, returned, offered, updates, retrieval, sheet, feedback>>

\* update_reward lines 101-105: clamp, return on an unknown key
BeginUpdate(t) ==
  \E key \in FeedbackKeys, reward \in Rewards :
    /\ threads[t].pc = "idle"
    /\ Step(t, [threads[t] EXCEPT
                  !.op = "update", !.key = key, !.reward = Clamp(reward),
                  !.pc = IF DictHas(combinations, key) THEN "read_alpha"
                         ELSE "done"])
    /\ UNCHANGED <<combinations, file>>

\* line 107, self.combinations[key]["alpha"] += reward: the read
UpdateReadAlpha(t) ==
  /\ threads[t].pc = "read_alpha"
  /\ Step(t, [threads[t] EXCEPT
                !.tmp = DictGet(combinations, threads[t].key).alpha,
                !.pc = "write_alpha"])
  /\ UNCHANGED <<combinations, file>>

\* line 107: the add and the store
UpdateWriteAlpha(t) ==
  /\ threads[t].pc = "write_alpha"
  /\ combinations' = DictSet(combinations, threads[t].key,
                             threads[t].tmp + threads[t].reward,
                             DictGet(combinations, threads[t].key).beta)
  /\ Step(t, [threads[t] EXCEPT !.pc = "read_beta"])
  /\ file' = file

\* line 108, self.combinations[key]["beta"] += (1.0 - reward): the read
UpdateReadBeta(t) ==
  /\ threads[t].pc = "read_beta"
  /\ Step(t, [threads[t] EXCEPT
                !.tmp = DictGet(combinations, threads[t].key).beta,
                !.pc = "write_beta"])
  /\ UNCHANGED <<combinations, file>>

\* line 108: the add and the store
UpdateWriteBeta(t) ==
  /\ threads[t].pc = "write_beta"
  /\ combinations' = DictSet(combinations, threads[t].key,
                             DictGet(combinations, threads[t].key).alpha,
                             threads[t].tmp + (Scale - threads[t].reward))
  /\ Step(t, [threads[t] EXCEPT !.pc = "save"])
  /\ file' = file

\* line 110 -> save_state line 137: open(self.state_file, 'w') empties the
\* file
UpdateOpen(t) ==
  /\ threads[t].pc = "save"
  /\ file' = save_state(combinations, file, "write_failed")
  /\ Step(t, [threads[t] EXCEPT !.pc = "dump"])
  /\ combinations' = combinations

\* save_state lines 138-139, then the return: the dump reaches the file when
\* it is closed.  A file that another writer has filled since this one
\* emptied it is written over from its start: the text of this writer, or
\* its text followed by what was left of the longer one.
UpdateDump(t) ==
  /\ threads[t].pc = "dump"
  /\ \E outcome \in IF file.kind = "doc" THEN {"ok", "write_failed"}
                     ELSE {"ok"} :
       file' = save_state(combinations, file, outcome)
  /\ Step(t, [threads[t] EXCEPT !.applied = TRUE, !.pc = "done"])
  /\ combinations' = combinations

\* select_combination lines 57-76: the sentinel, or the candidates' keys
BeginSelect(t) ==
  \E candidates \in CandidateLists :
    /\ threads[t].pc = "idle"
    /\ IF candidates = <<>> /\ combinations = <<>>
         THEN Step(t, [threads[t] EXCEPT
                         !.op = "select", !.selection = Sentinel,
                         !.pc = "done"])
         ELSE Step(t, [threads[t] EXCEPT
                         !.op = "select", !.candidates = candidates,
                         !.keys = SelectKeys(combinations, candidates),
                         !.i = 1,
                         !.pc = IF candidates # <<>> THEN "register"
                                ELSE "sample_alpha"])
    /\ UNCHANGED <<combinations, file>>

\* lines 72-74, once per candidate: if key not in self.combinations: ...
SelectRegister(t) ==
  /\ threads[t].pc = "register"
  /\ \E key \in { threads[t].keys[threads[t].i] } :
       combinations' = IF DictHas(combinations, key) THEN combinations
                       ELSE DictSet(combinations, key, Scale, Scale)
  /\ Step(t, IF threads[t].i < Len(threads[t].keys)
               THEN [threads[t] EXCEPT !.i = @ + 1]
               ELSE [threads[t] EXCEPT !.i = 1, !.pc = "sample_alpha"])
  /\ file' = file

\* line 81: alpha = self.combinations[key]["alpha"]
SelectReadAlpha(t) ==
  /\ threads[t].pc = "sample_alpha"
  /\ Step(t, [threads[t] EXCEPT
                !.tmp = DictGet(combinations, threads[t].keys[threads[t].i]).alpha,
                !.pc = "sample_beta"])
  /\ UNCHANGED <<combinations, file>>

\* lines 82-97: beta = ..., the draw from Beta(alpha, beta) (0.5 here), and
\* after the last key the argmax and the return
SelectReadBeta(t) ==
  /\ threads[t].pc = "sample_beta"
  /\ \E pair \in { << threads[t].tmp,
                      DictGet(combinations, threads[t].keys[threads[t].i]).beta >> } :
       Step(t, IF threads[t].i < Len(threads[t].keys)
                 THEN [threads[t] EXCEPT !.seen = Append(@, pair),
                                         !.i = @ + 1, !.pc = "sample_alpha"]
                 ELSE [threads[t] EXCEPT
                         !.seen = Append(@, pair),
                         !.selection =
                            SelectResult(threads[t].keys,
                                         [j \in 1..Len(threads[t].keys)
                                            |-> SampleLevels]),
                         !.pc = "done"])
  /\ UNCHANGED <<combinations, file>>

NextConc ==
  \E t \in Threads :
    \/ BeginUpdate(t)
    \/ UpdateReadAlpha(t)
    \/ UpdateWriteAlpha(t)
    \/ UpdateReadBeta(t)
    \/ UpdateWriteBeta(t)
    \/ UpdateOpen(t)
    \/ UpdateDump(t)
    \/ BeginSelect(t)
    \/ SelectRegister(t)
    \/ SelectReadAlpha(t)
    \/ SelectReadBeta(t)

SpecConc == InitConc /\ [][NextConc]_vars

\* -------------------------------------------------- one retrieval ---------
\* retrieve reads the corpus and the similarities of the topic, and writes
\* nothing: the call starts from any corpus, similarities and top-k values.
InitRetrieve ==
  /\ combinations = load_state(<<>>, NoFile)
  /\ file = NoFile
  /\ call = NoCall
  /\ returned = NoReturn
  /\ offered = {}
  /\ updates = [k \in {} |-> 0]
  /\ threads = [t \in Threads |-> IdleThread]
  /\ sheet = <<>>
  /\ feedback = NoFeedback
  /\ \E corpus \in Corpora, place_sim \in SimTables, verb_sim \in SimTables,
        scenario_sim \in SimTables,
        top_k_places \in TopKs, top_k_verbs \in TopKs, top_k_scenarios \in TopKs :
       retrieval = [NoRetrieval EXCEPT
                      !.stage = "called", !.corpus = corpus,
                      !.place_sim = place_sim, !.verb_sim = verb_sim,
                      !.scenario_sim = scenario_sim,
                      !.top_k_places = top_k_places,
                      !.top_k_verbs = top_k_verbs,
                      !.top_k_scenarios = top_k_scenarios]

Retrieve ==
  /\ retrieval.stage = "called"
  /\ \E result \in retrieve(retrieval.corpus, retrieval.place_sim,
                            retrieval.verb_sim, retrieval.scenario_sim,
                            retrieval.top_k_places, retrieval.top_k_verbs,
                            retrieval.top_k_scenarios) :
       retrieval' = [retrieval EXCEPT !.stage = "returned",
                                      !.result = result]
  /\ UNCHANGED <<combinations, file, call, returned, offered, updates, threads, sheet, feedback>>

NextRetrieve == Retrieve

SpecRetrieve == InitRetrieve /\ [][NextRetrieve]_vars

\* ------------------------------------------------ POST /generate ---------
\* _refine_with_gpt, rapo_generator.py lines 124-157: the text of the model
\* when it answered, the template when there is no client or the call fails
GptText == <<"gpt">>
Template(place, verb, scenario) ==
  <<"A ">> \o scenario \o <<" scene in ">> \o place \o <<", camera ">> \o verb
_refine_with_gpt(place, verb, scenario, answered) ==
  IF answered THEN GptText ELSE Template(place, verb, scenario)

\* bandit.select_combination(candidates) as generate calls it, line 105; every
\* key draws 0.5
SelectionOf(comb, candidates) ==
  IF candidates = <<>> /\ comb = <<>> THEN Sentinel
  ELSE LET keys == SelectKeys(Register(comb, candidates), candidates)
       IN SelectResult(keys, [i \in 1..Len(keys) |-> SampleLevels])

\* RapoGenerator.generate, lines 98-122, from the candidates on: the store
\* after the selection and the dict generate returns
generate(comb, candidates, answered) ==
  LET selection == SelectionOf(comb, candidates)
  IN [combinations |-> IF candidates = <<>> /\ comb = <<>> THEN comb
                       ELSE Register(comb, candidates),
      selection |-> selection,
      prompt |-> _refine_with_gpt(selection.place, selection.verb,
                                  selection.scenario, answered),
      candidates_count |-> Len(candidates)]

\* GenerateResponse, src/api.py lines 44-52: combination_key is declared str,
\* the model refuses None
Validates(result) == result.selection.combination_key # None

\* what the client of POST /generate receives: the response model, or the
\* server's answer to the exception raised in the handler
GenerateReturn(result, n8n_sent) ==
  IF Validates(result)
    THEN [selection |-> result.selection, status |-> 200, success |-> FALSE,
          top |-> <<>>, prompt |-> result.prompt,
          candidates_count |-> result.candidates_count,
          n8n_sent |-> n8n_sent]
    ELSE [selection |-> NoSelection, status |-> 500, success |-> FALSE,
          top |-> <<>>, prompt |-> <<>>, candidates_count |-> 0,
          n8n_sent |-> FALSE]

\* generate_prompt, src/api.py lines 82-121.  The candidates are the fixed
\* arms, or what retrieve returns for the topic; n8n_sent is whether the
\* webhook was asked and answered 200.
GeneratePrompt ==
  \E candidates \in CandidateLists, n8n_sent \in BOOLEAN, answered \in BOOLEAN :
    \E result \in { generate(combinations, candidates, answered) } :
       /\ combinations' = result.combinations
       /\ call' = [NoCall EXCEPT !.op = "generate", !.candidates = candidates]
       /\ returned' = GenerateReturn(result, n8n_sent)
       /\ offered' = offered \cup Range(CandidateKeys(candidates))
       /\ updates' = [k \in DOMAIN updates
                             \cup (DictKeys(result.combinations)
                                     \ DictKeys(combinations)) |->
                        IF k \in DOMAIN updates THEN updates[k] ELSE 0]
       /\ UNCHANGED <<file, threads, retrieval, sheet, feedback>>

NextApi ==
  \/ Restart
  \/ GeneratePrompt
  \/ RewardEndpoint

SpecApi == Init /\ [][NextApi]_vars

\* ------------------------------------------------- retriever startup -----
\* ModifierRetriever.__init__ -> _load_data, lines 59-106.  graph_dir holds
\* the artifacts of FullCorpus; each file is readable, missing, or present
\* but not parseable, at most MaxMissing of them not readable.
Artifacts ==
  {"place_to_idx", "verb_to_idx", "scenario_to_idx", "place_embed",
   "verb_words_embed", "scenario_words_embed", "graph_place_verb",
   "graph_place_scene"}

GraphDirs ==
  { d \in [Artifacts -> {"readable", "missing", "corrupt"}] :
      Cardinality({ a \in Artifacts : d[a] # "readable" }) <= MaxMissing }

\* _load_json returns {} and the graphs default to nx.Graph() for a file
\* that does not exist
_load_data(disk, dir) ==
  [place_to_idx |-> IF dir["place_to_idx"] = "missing" THEN NoDict
                    ELSE disk.place_to_idx,
   verb_to_idx |-> IF dir["verb_to_idx"] = "missing" THEN NoDict
                   ELSE disk.verb_to_idx,
   scenario_to_idx |-> IF dir["scenario_to_idx"] = "missing" THEN NoDict
                       ELSE disk.scenario_to_idx,
   place_embed |-> IF dir["place_embed"] = "missing" THEN 0
                   ELSE disk.place_embed,
   verb_embed |-> IF dir["verb_words_embed"] = "missing" THEN 0
                  ELSE disk.verb_embed,
   scenario_embed |-> IF dir["scenario_words_embed"] = "missing" THEN 0
                      ELSE disk.scenario_embed,
   G_place_verb |-> IF dir["graph_place_verb"] = "missing"
                      THEN [w \in {} |-> {}] ELSE disk.G_place_verb,
   G_place_scene |-> IF dir["graph_place_scene"] = "missing"
                       THEN [w \in {} |-> {}] ELSE disk.G_place_scene]

InitStartup ==
  /\ combinations = load_state(<<>>, NoFile)
  /\ file = NoFile
  /\ call = NoCall
  /\ returned = NoReturn
  /\ offered = {}
  /\ updates = [k \in {} |-> 0]
  /\ threads = [t \in Threads |-> IdleThread]
  /\ sheet = <<>>
  /\ feedback = NoFeedback
  /\ retrieval = NoRetrieval

\* the constructor: json.load or nx.read_graphml raises on a file it cannot
\* parse and no retriever exists; otherwise the retriever is ready
LoadData ==
  /\ retrieval.stage = "none"
  /\ \E dir \in GraphDirs :
       retrieval' =
         IF \E a \in Artifacts : dir[a] = "corrupt"
           THEN [retrieval EXCEPT !.stage = "failed"]
           ELSE [retrieval EXCEPT !.stage = "loaded",
                                  !.corpus = _load_data(FullCorpus, dir)]
  /\ UNCHANGED <<combinations, file, call, returned, offered, updates, threads, sheet, feedback>>

\* retrieve is called on the constructed retriever; a call leaves nothing
\* behind in the retriever, one call after the constructor shows them all
CallRetrieve ==
  /\ retrieval.stage = "loaded"
  /\ \E place_sim \in SimTables, verb_sim \in SimTables,
        scenario_sim \in SimTables,
        top_k_places \in TopKs, top_k_verbs \in TopKs, top_k_scenarios \in TopKs :
       retrieval' = [NoRetrieval EXCEPT
                       !.stage = "called", !.corpus = retrieval.corpus,
                       !.place_sim = place_sim, !.verb_sim = verb_sim,
                       !.scenario_sim = scenario_sim,
                       !.top_k_places = top_k_places,
                       !.top_k_verbs = top_k_verbs,
                       !.top_k_scenarios = top_k_scenarios]
  /\ UNCHANGED <<combinations, file, call, returned, offered, updates, threads, sheet, feedback>>

NextStartup ==
  \/ LoadData
  \/ CallRetrieve
  \/ Retrieve

SpecStartup == InitStartup /\ [][NextStartup]_vars

\* ------------------------------------------------- keys of any texts -----
\* _make_key and _parse_key on modifier texts of up to MaxText characters, a
\* letter or the separator each: select_combination is offered two triples
\* on a fresh store.
Texts == UNION { [1..n -> {"a", Sep}] : n \in 1..MaxText }
TextTriples == Texts \X Texts \X Texts

InitKeys ==
  /\ combinations = load_state(<<>>, NoFile)
  /\ file = NoFile
  /\ \E candidates \in [1..2 -> TextTriples] :
       call = [NoCall EXCEPT !.op = "offer", !.candidates = candidates]
  /\ returned = NoReturn
  /\ offered = {}
  /\ updates = [k \in {} |-> 0]
  /\ threads = [t \in Threads |-> IdleThread]
  /\ sheet = <<>>
  /\ feedback = NoFeedback
  /\ retrieval = NoRetrieval

\* select_combination(candidates), lines 66-97; every key draws 0.5
SelectOffered ==
  /\ call.op = "offer"
  /\ \E comb2 \in { Register(combinations, call.candidates) } :
     \E keys \in { CandidateKeys(call.candidates) } :
     \E sampled_values \in { [i \in 1..Len(keys) |-> SampleLevels] } :
       /\ combinations' = comb2
       /\ call' = [call EXCEPT !.op = "select", !.samples = sampled_values]
       /\ returned' = [NoReturn EXCEPT
                         !.selection = SelectResult(keys, sampled_values)]
       /\ offered' = Range(keys)
       /\ updates' = [k \in DictKeys(comb2) |-> 0]
  /\ UNCHANGED <<file, threads, retrieval, sheet, feedback>>

NextKeys == SelectOffered

SpecKeys == InitKeys /\ [][NextKeys]_vars

\* ------------------------------------------- the flush may fail ----------
\* The same store with a file system that may refuse the open or fail in the
\* middle of the dump.
UpdateRewardFaulty == UpdateRewardWith(SaveOutcomes)
RewardEndpointFaulty == RewardEndpointWith(SaveOutcomes)

NextFaulty ==
  \/ Restart
  \/ SelectCombinationHalf
  \/ UpdateRewardFaulty
  \/ RewardEndpointFaulty

SpecFaulty == Init /\ [][NextFaulty]_vars

\* ------------------------------------------- the feedback loop ---------
\* POST /update-policy over the video log worksheet.  A row carries the
\* Status and Reward cells, the key cell, whether its Timestamp is at least
\* six hours old, and how often its reward has reached the bandit.
MaxRows == 2

NoReward == Scale + 2

\* calculate_reward returns a weighted sum of rates clipped to [0, 1]
PolicyRewards == 0 .. Scale

\* log_video, google_sheets_client.py lines 52-66: the appended row
NewRow(key) ==
  [status |-> "PENDING", old |-> FALSE, key |-> key, reward |-> NoReward,
   applied |-> 0]

\* get_pending_videos, lines 77-95: Status PENDING and age >= 6 hours
IsPending(row) == row.status = "PENDING" /\ row.old

get_pending_videos(rows) == { i \in 1..Len(rows) : IsPending(rows[i]) }

\* update_video_status, lines 101-117: the Status cell, then the Reward cell;
\* an exception of either update_cell is printed and swallowed
CellOutcomes == {"ok", "status_failed", "reward_failed"}

update_video_status(row, status, reward, outcome) ==
  CASE outcome = "ok" -> [row EXCEPT !.status = status, !.reward = reward]
    [] outcome = "reward_failed" -> [row EXCEPT !.status = status]
    [] OTHER -> row

\* what one row of the loop meets: the analytics answer (NoReward: none)
\* and the outcome of the two cell writes; the state file is written without
\* faults
RowChoices == [metrics : PolicyRewards \cup {NoReward}, cells : CellOutcomes]

SkippedRow == [metrics |-> NoReward, cells |-> "ok"]

\* the body of the loop of update_policy, api.py lines 194-221, from row i on
RECURSIVE ProcessRows(_, _, _, _, _, _)
ProcessRows(comb, f, rows, details, choices, i) ==
  IF i > Len(rows)
    THEN [combinations |-> comb, file |-> f, sheet |-> rows,
          details |-> details]
  ELSE IF ~IsPending(rows[i]) \/ rows[i].key = <<>>
            \/ choices[i].metrics = NoReward
    THEN ProcessRows(comb, f, rows, details, choices, i + 1)
  ELSE LET reward == choices[i].metrics
           u == update_reward(comb, f, rows[i].key, reward, "ok")
           row == update_video_status(rows[i], "DONE", reward,
                                      choices[i].cells)
           counted == [row EXCEPT
                         !.applied = IF u.applied THEN @ + 1 ELSE @]
       IN ProcessRows(u.combinations, u.file,
                      [rows EXCEPT ![i] = counted],
                      Append(details, [key |-> rows[i].key,
                                       reward |-> reward]),
                      choices, i + 1)

\* the store as earlier selections have left it, an empty worksheet
InitPolicy ==
  /\ combinations \in { Register(<<>>, c) : c \in CandidateLists }
  /\ file = NoFile
  /\ call = NoCall
  /\ returned = NoReturn
  /\ offered = {}
  /\ updates = [k \in {} |-> 0]
  /\ threads = [t \in Threads |-> IdleThread]
  /\ retrieval = NoRetrieval
  /\ sheet = <<>>
  /\ feedback = NoFeedback

\* a video is published and logged; CombinationKey may be empty
LogVideo ==
  \E key \in DictKeys(combinations) \cup {<<>>} :
    /\ Len(sheet) < MaxRows
    /\ sheet' = Append(sheet, NewRow(key))
    /\ UNCHANGED <<combinations, file, call, returned, offered, updates, threads, retrieval, feedback>>

\* the Timestamp of row i becomes six hours old
SixHoursPass ==
  \E i \in 1..Len(sheet) :
    /\ ~sheet[i].old
    /\ sheet' = [sheet EXCEPT ![i].old = TRUE]
    /\ UNCHANGED <<combinations, file, call, returned, offered, updates, threads, retrieval, feedback>>

\* update_policy, api.py lines 178-233, with a connected sheets client (line
\* 186); get_pending_videos answers [] when reading the worksheet fails
UpdatePolicy ==
  /\ Mass(combinations) + Cardinality(get_pending_videos(sheet)) <= MaxUpdates
  /\ \E read \in {"ok", "read_failed"}, choices \in [1..Len(sheet) -> RowChoices] :
       /\ \A i \in 1..Len(sheet) :
            (read = "read_failed" \/ ~IsPending(sheet[i])) => choices[i] = SkippedRow
       /\ \E p \in { ProcessRows(combinations, file, sheet, <<>>, choices, 1) } :
            /\ combinations' = IF read = "ok" THEN p.combinations ELSE combinations
            /\ file' = IF read = "ok" THEN p.file ELSE file
            /\ sheet' = IF read = "ok" THEN p.sheet ELSE sheet
            /\ call' = [NoCall EXCEPT
                          !.op = "policy",
                          !.log = IF read = "ok" THEN <<>>
                                  ELSE <<"Error fetching pending videos">>]
            /\ returned' = [NoReturn EXCEPT
                              !.status = 200, !.success = TRUE,
                              !.top = IF read = "ok" THEN p.details ELSE <<>>]
            /\ UNCHANGED <<offered, updates, threads, retrieval, feedback>>

NextPolicy ==
  \/ LogVideo
  \/ SixHoursPass
  \/ UpdatePolicy

SpecPolicy == InitPolicy /\ [][NextPolicy]_vars

\* ------------------------------------------- order of the feedback ------
\* alpha and beta are Python floats: every += rounds its sum to the nearest
\* float, ties to the even mantissa.  Here a float has Precision mantissa
\* bits and values are counted in units of 1/Grain, so that 1.0 is Grain and
\* the floats from 1.0 to 2.0 are the even numbers from Grain to 2 * Grain.
Precision == 3

MaxItems == 2

Grain == 2 ^ Precision

\* rewards a caller may pass, one step outside [0, 1] on both sides
FloatRewards == (0 - 1) .. (Grain + 1)

\* the distance between neighbouring floats at v
RECURSIVE UlpFrom(_, _)
UlpFrom(v, u) == IF v < Grain * u THEN u ELSE UlpFrom(v, 2 * u)

Ulp(v) == UlpFrom(v, 1)

\* round to nearest, ties to even
Round(v) ==
  LET u == Ulp(v)
      lo == (v \div u) * u
      hi == lo + u
  IN CASE 2 * (v - lo) < u -> lo
       [] 2 * (v - lo) > u -> hi
       [] OTHER -> IF (lo \div u) % 2 = 0 THEN lo ELSE hi

FloatAdd(a, b) == Round(a + b)

\* line 101, max(0.0, min(1.0, reward))
FloatClamp(r) == PyMax(0, PyMin(Grain, r))

\* lines 107-108 with "=" in place of "+="
FloatApplyReward_Overwrite(comb, key, r) ==
  [i \in 1..Len(comb) |->
     IF comb[i].key = key
       THEN [comb[i] EXCEPT !.alpha = r, !.beta = Round(Grain - r)]
       ELSE comb[i]]

\* lines 107-108: alpha += reward; beta += (1.0 - reward)
FloatApplyReward(comb, key, r) ==
  [i \in 1..Len(comb) |->
     IF comb[i].key = key
       THEN [comb[i] EXCEPT !.alpha = FloatAdd(@, r),
                            !.beta = FloatAdd(@, Round(Grain - r))]
       ELSE comb[i]]

\* update_reward, lines 99-110, on float beliefs
FloatUpdate(comb, item) ==
  IF ~DictHas(comb, item.key) THEN comb
  ELSE FloatApplyReward(comb, item.key, FloatClamp(item.reward))

\* the items applied one after the other
RECURSIVE ApplyItems(_, _)
ApplyItems(comb, items) ==
  IF items = <<>> THEN comb
  ELSE ApplyItems(FloatUpdate(comb, Head(items)), Tail(items))

\* a store of the exact model with its beliefs as floats
FloatStore(comb) ==
  [i \in 1..Len(comb) |->
     [comb[i] EXCEPT !.alpha = (@ * Grain) \div Scale,
                     !.beta = (@ * Grain) \div Scale]]

FeedbackItems(comb) ==
  UNION { [1..n -> [key : DictKeys(comb) \cup {ForgedKey}, reward : FloatRewards]] : n \in 0..MaxItems }

\* a store as selections have left it and a batch of feedback for it
InitOrder ==
  /\ combinations \in { FloatStore(Register(<<>>, c)) : c \in CandidateLists }
  /\ file = NoFile
  /\ call = NoCall
  /\ returned = NoReturn
  /\ offered = {}
  /\ updates = [k \in {} |-> 0]
  /\ threads = [t \in Threads |-> IdleThread]
  /\ retrieval = NoRetrieval
  /\ sheet = <<>>
  /\ \E items \in FeedbackItems(combinations) :
       feedback = [stage |-> "arrived", store |-> combinations,
                   items |-> items, order |-> <<>>]

\* update_reward is called once per item, in the order the items arrive
ApplyFeedback ==
  \E order \in Orders(1..Len(feedback.items)) :
    /\ feedback.stage = "arrived"
    /\ combinations' = ApplyItems(feedback.store, [i \in 1..Len(order) |-> feedback.items[order[i]]])
    /\ file' = IF order = <<>> THEN file ELSE save_state(combinations', file, "ok")
    /\ feedback' = [feedback EXCEPT !.stage = "applied", !.order = order]
    /\ UNCHANGED <<call, returned, offered, updates, threads, retrieval, sheet>>

NextOrder == ApplyFeedback

SpecOrder == InitOrder /\ [][NextOrder]_vars

\* ============================================================= claims ====
\* an update_reward that reached the bandit (the /reward handler may answer
\* 400 before calling it)
IsUpdate(c, r) ==
  \/ c.op = "update"
  \/ c.op = "reward" /\ r.status = 200

Registered(comb) == DictKeys(comb)
Belief(comb, key) == <<DictGet(comb, key).alpha, DictGet(comb, key).beta>>

\* max(0, min(1, r)) written out by cases
Clamped(r) == IF r < 0 THEN 0 ELSE IF r > Scale THEN Scale ELSE r

\* C1: update_reward(key, r) on a registered key adds c = max(0, min(1, r)) to
\* alpha and 1 - c to beta of that key and changes no other belief.
C1_ClampedUpdate ==
  [][ (IsUpdate(call', returned') /\ call'.key \in Registered(combinations))
        => /\ DictKeyList(combinations') = DictKeyList(combinations)
           /\ \A k \in Registered(combinations) :
                Belief(combinations', k) =
                  IF k = call'.key
                    THEN << Belief(combinations, k)[1] + Clamped(call'.reward),
                            Belief(combinations, k)[2]
                              + (Scale - Clamped(call'.reward)) >>
                    ELSE Belief(combinations, k) ]_vars

\* a negative reward was applied to a registered key as 0
C1_Witness ==
  /\ call.op = "update" /\ call.applied
  /\ call.reward < 0
  /\ Belief(combinations, call.key) = <<Scale, 2 * Scale>>

C3_BeliefsAtLeastOne ==
  \A i \in 1..Len(combinations) :
    combinations[i].alpha >= Scale /\ combinations[i].beta >= Scale

\* a belief updated with a reward above 1 was flushed and loaded again
C3_Witness ==
  /\ call.op = "restart"
  /\ \E i \in 1..Len(combinations) :
       combinations[i].alpha = 2 * Scale /\ combinations[i].beta = Scale

\* C4: update_reward on a key that is not registered changes neither the
\* store nor the state file.
C4_UnknownKeyNoChange ==
  [][ (IsUpdate(call', returned') /\ call'.key \notin Registered(combinations))
        => combinations' = combinations /\ file' = file ]_vars

\* feedback for a key never offered arrived at a store that holds beliefs
C4_Witness ==
  /\ call.op = "update" /\ call.key = ForgedKey /\ ~call.applied
  /\ combinations # <<>>
  /\ file.kind = "doc"

\* C5: the caller can tell an update that was not applied from one that was:
\* /reward answers success exactly when the belief was changed.
C5_OutcomeDistinguishable ==
  (call.op = "reward" /\ returned.status = 200)
    => (returned.success <=> call.applied)

\* C6: no operation other than an applied update changes the belief of a
\* registered key; select_combination leaves registered keys as they are.
C6_OnlyUpdatesMutate ==
  [][ (call'.op # "restart" /\ ~(IsUpdate(call', returned') /\ call'.applied))
        => \A k \in Registered(combinations) :
             /\ k \in Registered(combinations')
             /\ Belief(combinations', k) = Belief(combinations, k) ]_vars

\* a key whose belief had been updated was offered again
C6_Witness ==
  /\ call.op = "select"
  /\ \E i \in 1..Len(call.candidates) :
       LET k == CandidateKeys(call.candidates)[i]
       IN Belief(combinations, k)[1] + Belief(combinations, k)[2] > 2 * Scale

\* C7: select_combination registers every candidate key, a new one as (1,1),
\* so that an update for any key offered since the start is applied.
C7_AllCandidatesRegistered ==
  /\ [](/\ offered \subseteq Registered(combinations)
        /\ (IsUpdate(call, returned) /\ call.key \in offered) => call.applied)
  /\ [][ (call'.op = "select" /\ call'.candidates # <<>>)
           => \A i \in 1..Len(call'.candidates) :
                LET k == CandidateKeys(call'.candidates)[i]
                IN /\ k \in Registered(combinations')
                   /\ k \notin Registered(combinations)
                        => Belief(combinations', k) = <<Scale, Scale>> ]_vars

\* two new keys were offered, the first was selected, the second is registered
C7_Witness ==
  /\ call.op = "select" /\ Len(call.candidates) = 2
  /\ LET keys == CandidateKeys(call.candidates)
     IN /\ keys[1] # keys[2]
        /\ returned.selection.combination_key = keys[1]
        /\ keys[2] \in DOMAIN updates
        /\ Belief(combinations, keys[2]) = <<Scale, Scale>>

\* C8: select_combination, update_reward and get_top_combinations never
\* remove a registered key.
C8_KeysOnlyGrow ==
  [][ call'.op \in {"select", "update", "reward", "top"}
        => Registered(combinations) \subseteq Registered(combinations') ]_vars

\* an update was applied in a store of two keys, both still registered
C8_Witness ==
  /\ IsUpdate(call, returned) /\ call.applied
  /\ Len(combinations) = 2

\* C9: for a non-empty candidate list the returned key is the first candidate
\* holding the maximum sampled value, and estimated_reward is that value.
C9_FirstMaximumSelected ==
  (call.op = "select" /\ call.candidates # <<>>)
    => \E i \in 1..Len(call.candidates) :
         /\ \A j \in 1..Len(call.candidates) : call.samples[j] <= call.samples[i]
         /\ \A j \in 1..(i - 1) : call.samples[j] < call.samples[i]
         /\ returned.selection.combination_key
              = CandidateKeys(call.candidates)[i]
         /\ returned.selection.estimated_reward = call.samples[i]

\* two different candidates drew the same value and the first was returned
C9_Witness ==
  /\ call.op = "select" /\ Len(call.candidates) = 2
  /\ call.samples[1] = call.samples[2]
  /\ CandidateKeys(call.candidates)[1] # CandidateKeys(call.candidates)[2]
  /\ returned.selection.combination_key = CandidateKeys(call.candidates)[1]

\* C10: select with an empty candidate list returns the sentinel, whatever
\* the store holds.
C10_EmptyCandidatesSentinel ==
  (call.op = "select" /\ call.candidates = <<>>)
    => returned.selection = Sentinel

\* position of a key in the store, in registration order
Position(comb, key) == DictIndex(comb, key, 1)

\* the entries of get_top_combinations describe registered keys
TopDescribesStore(res) ==
  /\ \A i \in 1..Len(res) :
       /\ res[i].key \in Registered(combinations)
       /\ <<res[i].alpha, res[i].beta>> = Belief(combinations, res[i].key)
       /\ res[i].mean_reward = <<res[i].alpha, res[i].alpha + res[i].beta>>
  /\ \A i, j \in 1..Len(res) : i # j => res[i].key # res[j].key

\* a / (a + b) of one belief compared with that of another, as fractions
MeanOf(comb, key) ==
  <<Belief(comb, key)[1], Belief(comb, key)[1] + Belief(comb, key)[2]>>
FracLess(x, y) == x[1] * y[2] < y[1] * x[2]

\* C11: get_top_combinations(n), n >= 0, returns at most n entries, each the
\* mean alpha/(alpha+beta) of a registered key, in non-increasing order of
\* the mean, and no key left out has a higher mean than a returned one.
C11_TopNSorted ==
  (call.op = "top" /\ call.n >= 0)
    => /\ Len(returned.top) <= call.n
       /\ TopDescribesStore(returned.top)
       /\ \A i \in 1..(Len(returned.top) - 1) :
            ~FracLess(returned.top[i].mean_reward,
                      returned.top[i + 1].mean_reward)
       /\ \A k \in Registered(combinations) :
            (\A i \in 1..Len(returned.top) : returned.top[i].key # k)
              => \A i \in 1..Len(returned.top) :
                   ~FracLess(returned.top[i].mean_reward,
                             MeanOf(combinations, k))

\* top 1 of two keys: the key registered second has the higher mean and is
\* the one returned
C11_Witness ==
  /\ call.op = "top" /\ call.n = 1
  /\ Len(combinations) = 2 /\ Len(returned.top) = 1
  /\ returned.top[1].key = combinations[2].key
  /\ FracLess(MeanOf(combinations, combinations[1].key),
              MeanOf(combinations, combinations[2].key))

\* str comparison: by code point, a proper prefix first
CodePoint(c) ==
  CASE c = "a" -> 97 [] c = "b" -> 98 [] c = "c" -> 99 [] c = "d" -> 100
    [] c = "z" -> 122 [] c = "|" -> 124 [] OTHER -> 0

RECURSIVE LexLess(_, _)
LexLess(x, y) ==
  IF y = <<>> THEN FALSE
  ELSE IF x = <<>> THEN TRUE
  ELSE IF Head(x) # Head(y) THEN CodePoint(Head(x)) < CodePoint(Head(y))
  ELSE LexLess(Tail(x), Tail(y))

SameMean(x, y) == ~FracLess(x.mean_reward, y.mean_reward)
                    /\ ~FracLess(y.mean_reward, x.mean_reward)

\* C12 as stated: entries of equal mean appear in ascending lexical order of
\* their keys.
C12_TiesLexical ==
  call.op = "top"
    => \A i, j \in 1..Len(returned.top) :
         (i < j /\ SameMean(returned.top[i], returned.top[j]))
           => LexLess(returned.top[i].key, returned.top[j].key)

\* C12 as amended: entries of equal mean appear in the order in which the
\* store holds their keys (registration order).
C12_TiesRegistrationOrder ==
  call.op = "top"
    => \A i, j \in 1..Len(returned.top) :
         (i < j /\ SameMean(returned.top[i], returned.top[j]))
           => Position(combinations, returned.top[i].key)
                < Position(combinations, returned.top[j].key)

\* two keys of equal mean, the lexically larger one registered first and
\* listed first
C12_Witness ==
  /\ call.op = "top" /\ Len(returned.top) = 2
  /\ SameMean(returned.top[1], returned.top[2])
  /\ LexLess(returned.top[2].key, returned.top[1].key)
  /\ returned.top[1].key = combinations[1].key

\* C14: when an applied update_reward whose flush succeeded has returned, the
\* state file is one document equal to the in-memory mapping.
C14_FileIsSnapshot ==
  (IsUpdate(call, returned) /\ call.applied /\ call.save = "ok")
    => file = [kind |-> "doc", doc |-> combinations]

\* an update was flushed while the store held a second key that had only
\* been registered
C14_Witness ==
  /\ call.op = "update" /\ call.applied /\ call.save = "ok"
  /\ Len(combinations) = 2
  /\ \E i \in 1..2 : combinations[i].key # call.key
                      /\ combinations[i].alpha + combinations[i].beta = 2 * Scale
  /\ file.doc = combinations

\* C15 as stated: after a crash inside update_reward and the restart, every
\* belief the file held is back with its value from just before or just
\* after the interrupted update.
C15_CrashLosesAtMostOne ==
  [][ call'.op = "crash"
        => LET post == ApplyReward(combinations, call'.key,
                                   Clamped(call'.reward))
           IN \A k \in Registered(load_state(<<>>, file)) :
                /\ k \in Registered(combinations')
                /\ Belief(combinations', k)
                     \in { Belief(combinations, k), Belief(post, k) } ]_vars

\* C16: a failed flush keeps the mutation and lets the call return normally,
\* and every later successful flush writes the whole in-memory store.
C16_FailedFlushKeepsMemory ==
  /\ [][ (IsUpdate(call', returned') /\ call'.save \in {"open_failed", "write_failed"})
           => /\ call'.key \in Registered(combinations)
              /\ combinations' = ApplyReward(combinations, call'.key,
                                              Clamped(call'.reward))
              /\ call'.op = "reward" => returned'.status = 200 ]_vars
  /\ []((IsUpdate(call, returned) /\ call.applied /\ call.save = "ok")
          => file.kind = "doc" /\ file.doc = combinations)

\* the dump failed: the file is cut short, the store holds the update
C16_Witness ==
  /\ IsUpdate(call, returned) /\ call.applied /\ call.save = "write_failed"
  /\ file.kind = "partial"
  /\ Belief(combinations, call.key)[1] + Belief(combinations, call.key)[2]
       > 2 * Scale

\* what the caller of an update whose flush succeeded receives
SuccessReturn(op) ==
  IF op = "reward" THEN [NoReturn EXCEPT !.status = 200, !.success = TRUE]
  ELSE NoReturn

\* C17 as stated: the caller of an update whose flush failed receives a
\* result different from that of an update whose flush succeeded.
C17_FailureReportedToCaller ==
  (IsUpdate(call, returned) /\ call.applied /\ call.save # "ok")
    => returned # SuccessReturn(call.op)

\* C17 as amended: a failed flush is reported on the log only; the caller
\* receives the result of a successful update.
C17_FailureOnlyLogged ==
  (IsUpdate(call, returned) /\ call.applied)
    => /\ returned = SuccessReturn(call.op)
       /\ (call.save # "ok")
            <=> (\E i \in 1..Len(call.log) : call.log[i] = "Error saving state")

\* /reward answered success although the open of the state file failed
C17_Witness ==
  /\ call.op = "reward" /\ call.applied /\ call.save = "open_failed"
  /\ returned.success
  /\ call.log = <<"Error saving state", "Updated">>

\* the update threads that found key registered and have come to the given
\* positions
UpdatersAt(key, pcs) ==
  { t \in Threads : /\ threads[t].op = "update" /\ threads[t].key = key
                    /\ threads[t].pc \in pcs
                    /\ threads[t].pc = "done" => threads[t].applied }

RECURSIVE SumRewards(_)
SumRewards(ts) ==
  IF ts = {} THEN 0
  ELSE LET t == CHOOSE x \in ts : TRUE
       IN threads[t].reward + SumRewards(ts \ {t})

\* the belief of a key registered as (1,1) after exactly the updates of ts
BeliefAfter(ts) ==
  << Scale + SumRewards(ts),
     Scale + (Cardinality(ts) * Scale - SumRewards(ts)) >>

\* C18 as stated: when every thread has returned, each belief is (1,1) plus
\* the clamped rewards of all update_reward calls on its key.
C18_NoLostUpdate ==
  (\A t \in Threads : threads[t].pc = "done")
    => \A k \in Registered(combinations) :
         Belief(combinations, k) = BeliefAfter(UpdatersAt(k, {"done"}))

\* C19 as stated: every pair (alpha, beta) select_combination samples from is
\* the belief of its key after some of the concurrent updates, whole.
C19_NoTornBelief ==
  \A t \in Threads :
    \A j \in 1..Len(threads[t].seen) :
      \E ts \in SUBSET UpdatersAt(threads[t].keys[j],
                                  {"read_beta", "write_beta", "save", "dump",
                                   "done"}) :
        threads[t].seen[j] = BeliefAfter(ts)

\* C13: the combinations retrieve returns are the cross-product of the
\* places, verbs and scenarios it returns: as many as the product of the
\* three lengths, every triple of the three lists, none when a list is empty.
C13_CrossProduct ==
  (retrieval.stage = "returned" /\ retrieval.result.status = "ok")
    => LET r == retrieval.result
       IN /\ Len(r.combinations)
               = Len(r.places) * Len(r.verbs) * Len(r.scenarios)
          /\ Range(r.combinations)
               = { <<p, v, sc>> : p \in Range(r.places), v \in Range(r.verbs),
                                  sc \in Range(r.scenarios) }
          /\ (r.places = <<>> \/ r.verbs = <<>> \/ r.scenarios = <<>>)
               => r.combinations = <<>>

\* two places, two verbs and two scenarios gave eight combinations
C13_Witness ==
  /\ retrieval.stage = "returned"
  /\ Len(retrieval.result.places) = 2
  /\ Len(retrieval.result.verbs) = 2
  /\ Len(retrieval.result.scenarios) = 2
  /\ Len(retrieval.result.combinations) = 8

\* C20 as stated: POST /generate with an empty candidate set answers 200 and
\* its response carries the sentinel selection.
C20_EmptyCandidatesServed ==
  (call.op = "generate" /\ call.candidates = <<>>)
    => /\ returned.status = 200
       /\ returned.selection = Sentinel

\* a call of retrieve that has returned a result
Served == retrieval.stage = "returned" /\ retrieval.result.status = "ok"

\* C21 as stated: the three shortlists are no longer than their top-k, and
\* the combinations no more than the product of the three top-k, for every
\* top-k >= 0.
C21_TopKBounds ==
  Served
    => LET r == retrieval.result
       IN /\ Len(r.places) <= retrieval.top_k_places
          /\ Len(r.verbs) <= retrieval.top_k_verbs
          /\ Len(r.scenarios) <= retrieval.top_k_scenarios
          /\ Len(r.combinations)
               <= retrieval.top_k_places * retrieval.top_k_verbs
                    * retrieval.top_k_scenarios

\* the row of the j-th returned place and its similarity to the topic
PlaceRow(j) == retrieval.corpus.place_to_idx[retrieval.result.places[j]]
PlaceSim(j) == retrieval.place_sim[PlaceRow(j)]

\* C22 as stated, for the ranking of the places: min(k, n) distinct rows, by
\* non-increasing similarity, no omitted row more similar than a returned
\* one, rows of equal similarity by ascending index.
C22_StableRanking ==
  Served
    => LET n == retrieval.corpus.place_embed
           ranked == 1..Len(retrieval.result.places)
       IN /\ Len(retrieval.result.places) = PyMin(retrieval.top_k_places, n)
          /\ \A i \in ranked, j \in ranked :
               i < j => /\ PlaceRow(i) # PlaceRow(j)
                        /\ PlaceSim(i) >= PlaceSim(j)
                        /\ PlaceSim(i) = PlaceSim(j) => PlaceRow(i) < PlaceRow(j)
          /\ \A row \in 0..(n - 1), j \in ranked :
               (\A i \in ranked : PlaceRow(i) # row)
                 => retrieval.place_sim[row] <= PlaceSim(j)

\* the members of a pool that have a row in the embedding table
Embedded(pool, to_idx, embeddings) ==
  { c \in pool : c \in DOMAIN to_idx /\ to_idx[c] < embeddings }

VerbPool == Neighbours(retrieval.corpus.G_place_verb, retrieval.result.places)
ScenarioPool ==
  Neighbours(retrieval.corpus.G_place_scene, retrieval.result.places)

\* C23: the verbs and scenarios returned come from the neighbours of all
\* returned places together (all of them when each is embedded and top-k
\* does not cut); in the corpus where the verb is adjacent to a alone and
\* the scenario to b alone, place a alone gives no combination and both
\* places give (a, c, d) and (b, c, d).
C23_NeighbourUnion ==
  Served
    => LET r == retrieval.result
           c == retrieval.corpus
       IN /\ Range(r.verbs) \subseteq VerbPool
          /\ Range(r.scenarios) \subseteq ScenarioPool
          /\ ( /\ Embedded(VerbPool, c.verb_to_idx, c.verb_embed) = VerbPool
               /\ retrieval.top_k_verbs >= Cardinality(VerbPool) )
               => Range(r.verbs) = VerbPool
          /\ ( /\ Embedded(ScenarioPool, c.scenario_to_idx, c.scenario_embed)
                    = ScenarioPool
               /\ retrieval.top_k_scenarios >= Cardinality(ScenarioPool) )
               => Range(r.scenarios) = ScenarioPool
          /\ c = CrossCorpus
               => /\ r.places = <<PlaceA>> => r.combinations = <<>>
                  /\ Range(r.places) = {PlaceA, PlaceB}
                       => Range(r.combinations)
                            = { <<PlaceA, VerbC, SceneD>>,
                                <<PlaceB, VerbC, SceneD>> }

\* both places of that corpus were selected and gave the two combinations
C23_Witness ==
  /\ Served
  /\ retrieval.corpus = CrossCorpus
  /\ retrieval.top_k_places = 2
  /\ Len(retrieval.result.places) = 2
  /\ Len(retrieval.result.combinations) = 2

\* what re-ranking may make of a pool
Reranked(shortlist, pool, to_idx, embeddings, top_k) ==
  LET embedded == Embedded(pool, to_idx, embeddings)
  IN /\ embedded # {} => Range(shortlist) \subseteq embedded
     /\ embedded = {}
          => /\ Range(shortlist) \subseteq pool
             /\ Len(shortlist) = PyMin(top_k, Cardinality(pool))
             /\ Cardinality(Range(shortlist)) = Len(shortlist)
     /\ (pool # {} /\ top_k >= 1) => shortlist # <<>>

\* C24: re-ranking drops the members without an embedding; when none has
\* one the shortlist is the first top-k members of the pool; a non-empty
\* pool and top-k >= 1 never give an empty shortlist.
C24_RerankFallback ==
  Served
    => /\ Reranked(retrieval.result.verbs, VerbPool,
                   retrieval.corpus.verb_to_idx, retrieval.corpus.verb_embed,
                   retrieval.top_k_verbs)
       /\ Reranked(retrieval.result.scenarios, ScenarioPool,
                   retrieval.corpus.scenario_to_idx,
                   retrieval.corpus.scenario_embed,
                   retrieval.top_k_scenarios)

\* no verb is indexed: one of the two pool members was returned unranked;
\* the scenario without a row was dropped from a pool of two
C24_Witness ==
  /\ Served
  /\ retrieval.corpus = UnindexedCorpus
  /\ VerbPool = {VerbC, VerbCC}
  /\ retrieval.top_k_verbs = 1 /\ Len(retrieval.result.verbs) = 1
  /\ ScenarioPool = {SceneD, SceneDD}
  /\ retrieval.top_k_scenarios = 2
  /\ retrieval.result.scenarios = <<SceneD>>

\* every artifact has been read: no dict, table or graph is empty
Complete(corpus) ==
  /\ corpus.place_to_idx # NoDict /\ corpus.verb_to_idx # NoDict
  /\ corpus.scenario_to_idx # NoDict
  /\ corpus.place_embed > 0 /\ corpus.verb_embed > 0
  /\ corpus.scenario_embed > 0
  /\ DOMAIN corpus.G_place_verb # {} /\ DOMAIN corpus.G_place_scene # {}

\* C26 as stated: a retriever that has been constructed, and one that is
\* serving retrieve, holds every artifact of the corpus.
C26_NoPartialCorpus ==
  retrieval.stage \in {"loaded", "called", "returned"}
    => Complete(retrieval.corpus)

\* C25 as stated: when every thread has returned and an update was applied,
\* the state file is one document equal to the in-memory store.
C25_FileEqualsStore ==
  ( /\ \A t \in Threads : threads[t].pc = "done"
    /\ \E t \in Threads : threads[t].applied )
    => file = [kind |-> "doc", doc |-> combinations]

\* C27 as stated: parsing the key of each candidate gives the candidate
\* back, the place, verb and scenario select_combination returns are those
\* of the candidate whose key it returns, and distinct candidates have
\* distinct keys and so one belief each.
C27_KeyRoundTrip ==
  (call.op = "select" /\ call.candidates # <<>>)
    => LET cands == call.candidates
           KeyOf(i) == _make_key(cands[i][1], cands[i][2], cands[i][3])
           sel == returned.selection
       IN /\ \A i \in 1..Len(cands) : _parse_key(KeyOf(i)) = cands[i]
          /\ \E i \in 1..Len(cands) :
               /\ sel.combination_key = KeyOf(i)
               /\ <<sel.place, sel.verb, sel.scenario>> = cands[i]
          /\ \A i \in 1..Len(cands), j \in 1..Len(cands) :
               cands[i] # cands[j] => KeyOf(i) # KeyOf(j)
          /\ \A i \in 1..Len(cands), j \in 1..Len(cands) :
               DictIndex(combinations, KeyOf(i), 1)
                 = DictIndex(combinations, KeyOf(j), 1)
               => cands[i] = cands[j]

\* the keys a restart would find in the state file
FileKeys(f) == Registered(load_state(<<>>, f))

\* C28: select_combination leaves the state file as it is; a restart keeps
\* exactly the keys of the file, so a key registered since the last flush is
\* gone after it; and feedback for a key the store does not hold changes
\* nothing.
C28_SelectNeverWrites ==
  /\ [][ call'.op = "select" => file' = file ]_vars
  /\ [][ call'.op = "restart"
           => /\ Registered(combinations') = FileKeys(file)
              /\ \A k \in offered \ FileKeys(file) :
                   k \notin Registered(combinations') ]_vars
  /\ [][ (IsUpdate(call', returned') /\ call'.key \notin Registered(combinations))
           => ~call'.applied /\ combinations' = combinations ]_vars
  /\ [](FileKeys(file) \subseteq Registered(combinations))

\* a selection has registered a key the state file, written earlier, does
\* not hold
C28_Witness ==
  /\ call.op = "select"
  /\ file.kind = "doc"
  /\ \E k \in offered : k \in Registered(combinations) /\ k \notin FileKeys(file)

\* C29: over any number of update_policy runs the reward of a logged video
\* reaches the bandit at most once: a row whose reward has been applied is
\* DONE, and is never processed again.
C29_AtMostOnce ==
  \A i \in 1..Len(sheet) :
    /\ sheet[i].applied <= 1
    /\ sheet[i].applied = 1 => sheet[i].status = "DONE"

\* the store the batch leaves when it is applied in the order it is listed
InOrder == ApplyItems(feedback.store, feedback.items)

\* C30: reward updates commute: a batch of feedback applied in any order
\* leaves every key with the beliefs the listed order leaves.
C30_Commute == feedback.stage = "applied" => combinations = InOrder

Distance(a, b) == IF a < b THEN b - a ELSE a - b

\* every reward of the batch is 0, 0.5 or 1 after the clamp
HalfSteps(items) ==
  \A i \in 1..Len(items) : FloatClamp(items[i].reward) % (Grain \div 2) = 0

WithinRounding(a, b) ==
  Distance(a, b) <= Len(feedback.items) * Ulp(PyMax(a, b))

\* C30 (amended): two orders leave the same keys, beliefs that differ by at
\* most one rounding step per item, and equal beliefs when every reward is
\* 0, 0.5 or 1.
C30_CommuteUpToRounding ==
  feedback.stage = "applied" =>
    /\ Len(combinations) = Len(InOrder)
    /\ \A i \in 1..Len(combinations) :
         /\ combinations[i].key = InOrder[i].key
         /\ WithinRounding(combinations[i].alpha, InOrder[i].alpha)
         /\ WithinRounding(combinations[i].beta, InOrder[i].beta)
    /\ HalfSteps(feedback.items) => combinations = InOrder

C30_Witness ==
  /\ feedback.stage = "applied"
  /\ Len(feedback.items) = MaxItems
  /\ combinations # InOrder

====
